---------------------------- MODULE Spec2Model ----------------------------
(***************************************************************************)
(* Model of the Pharmacy API backend (src/backend/main.py): four tables    *)
(* (users, items, orders, order_items) behind FastAPI handlers that each   *)
(* obtain a SQLAlchemy session from get_db.                                *)
(*                                                                         *)
(* The store is the PostgreSQL database named by DATABASE_URL (line 11):   *)
(* primary keys, the UNIQUE constraint on users.email and the foreign keys *)
(* of orders and order_items are enforced, a violated constraint raises    *)
(* IntegrityError, which no handler catches (HTTP 500), and transactions   *)
(* run READ COMMITTED: a statement sees what is committed when it runs,    *)
(* plus the writes of its own transaction.                                 *)
(*                                                                         *)
(* Representation:                                                         *)
(*   - str(uuid.uuid4()) values are the positive naturals, handed out in   *)
(*     order by uuid_ctr; 0 is the id no row ever has ("invalid-id").      *)
(*   - an optional value (Python None or a value) is a sequence of length  *)
(*     at most one: <<>> is None, <<v>> is v.                              *)
(*   - a price travels as a float and is counted here in thousandths;      *)
(*     the column Numeric(10, 2) keeps hundredths.                         *)
(*   - a handler runs in a slot (a worker thread), one action for each     *)
(*     round trip to the store that another request's commit can fall      *)
(*     before: a lookup, a flush, a commit, a refresh.  get_item makes one *)
(*     round trip and is one action.  db.commit() is one action: the       *)
(*     statements of its flush and its COMMIT follow each other with no    *)
(*     handler code between, and a statement of another transaction that   *)
(*     touches a row the flush wrote or referenced waits for the COMMIT.   *)
(*   - out is the response sent by the latest step, with the request it    *)
(*     answers and the session that request leaves behind.                 *)
(***************************************************************************)
EXTENDS Integers, Sequences, FiniteSets

\* ------------------------------------------------------------- bounds
\* uuid4 values drawn in one behaviour
MaxUuid == 4
\* requests in flight at a time
NumSlots == 2
\* length of the items list of an OrderCreate body
MaxItems == 2

Slots == 1..NumSlots

\* ------------------------------------------------------------- inputs
Emails == {"user@test.com", "order@test.com"}
UserNames == {"Test User"}
ItemNames == {"Aspirin"}
Descriptions == {<<>>}
\* prices in thousandths: 3.505
Prices == {3505}
UpdNames == {<<>>, <<"">>, <<"New Name">>}
UpdDescriptions == {<<>>, <<"">>, <<"Fever reducer">>}
\* None, 0.0, 15.0 and 0.004
UpdPrices == {<<>>, <<0>>, <<15000>>, <<4>>}
\* quantities of a line item: negative, zero and positive
Quantities == {-1, 0, 2}
\* the values datetime.utcnow can return
Times == {1}
\* the body of test_update_item without the price
RenameOnly == [name |-> <<"New Name">>, description |-> <<>>, price |-> <<>>]

VARIABLES
  users,        \* rows of table users
  items,        \* rows of table items
  orders,       \* committed rows of table orders
  order_items,  \* committed rows of table order_items
  uuid_ctr,     \* how many uuid4 values have been drawn
  pc,           \* per slot: where its request stands
  req,          \* per slot: the request being handled
  sess,         \* per slot: the session get_db gave the request
  db_order,     \* per slot: the handler's local db_order, <<>> before line 196
  db_item,      \* per slot: the handler's local db_item as loaded or inserted
  db_user,      \* per slot: create_user's local db_user as inserted
  out           \* the response the latest step sent, NoOut if it sent none

vars == <<users, items, orders, order_items, uuid_ctr, pc, req, sess,
          db_order, db_item, db_user, out>>
store == <<users, items, orders, order_items>>

\* ------------------------------------------------------------ helpers
\* Mutants of Uuid4: an id that is the same at every draw, and an id
\* derived from the number of committed rows
Uuid4Fixed(k) == k
Uuid4FromRowCount(k) == Cardinality(orders) + Cardinality(order_items) + k

\* str(uuid.uuid4()): the k-th value drawn during a step
Uuid4(k) == uuid_ctr + k

\* Mutant of TruthyStr: the test "is not None"
IsNotNone(opt) == opt # <<>>

\* Python truthiness of an optional str request field: None and "" are falsy
TruthyStr(opt) == opt # <<>> /\ opt[1] # ""
\* Python truthiness of an optional float request field: None and 0.0 are falsy
TruthyFloat(opt) == opt # <<>> /\ opt[1] # 0

\* Numeric(10, 2): a price in thousandths rounded to hundredths, half away
\* from zero
Numeric2(p) == IF p >= 0 THEN ((p + 5) \div 10) * 10
                         ELSE -(((-p + 5) \div 10) * 10)

\* db.query(T).filter(T.pk == id).first(), as <<>> or <<row>>
FirstUser(id) == IF \E u \in users : u.user_id = id
                 THEN <<CHOOSE u \in users : u.user_id = id>> ELSE <<>>
FirstItem(id) == IF \E i \in items : i.item_id = id
                 THEN <<CHOOSE i \in items : i.item_id = id>> ELSE <<>>
FirstOrder(id) == IF \E o \in orders : o.order_id = id
                  THEN <<CHOOSE o \in orders : o.order_id = id>> ELSE <<>>

\* SessionLocal(): a session with no transaction yet; tx_orders are the
\* orders rows flushed in its open transaction, new the objects added and
\* not yet flushed
SessionLocal == [open |-> TRUE, tx_orders |-> {}, new |-> <<>>]
\* Session.close(): rolls the open transaction back and expunges everything
Close(db) == [open |-> FALSE, tx_orders |-> {}, new |-> <<>>]
\* the session after a successful db.commit(): nothing pending, no open
\* transaction
Committed(db) == [db EXCEPT !.tx_orders = {}, !.new = <<>>]
NoSession == [open |-> FALSE, tx_orders |-> {}, new |-> <<>>]

\* Mutant of get_db: no try/finally, the session is closed only when the
\* handler returns
get_db_no_finally(db, exit) == IF exit = "return" THEN Close(db) ELSE db

\* get_db: the generator's finally clause closes the session however the
\* handler left: "return", "http" (HTTPException) or "error" (any other)
get_db(db, exit) == Close(db)

NoReq == [op |-> "none"]
NoOut == [req |-> NoReq, status |-> 0, body |-> <<>>, db |-> NoSession,
          db_order |-> <<>>]

Init ==
  /\ users = {}
  /\ items = {}
  /\ orders = {}
  /\ order_items = {}
  /\ uuid_ctr = 0
  /\ pc = [r \in Slots |-> "idle"]
  /\ req = [r \in Slots |-> NoReq]
  /\ sess = [r \in Slots |-> NoSession]
  /\ db_order = [r \in Slots |-> <<>>]
  /\ db_item = [r \in Slots |-> <<>>]
  /\ db_user = [r \in Slots |-> <<>>]
  /\ out = NoOut

slotvars == <<pc, req, sess, db_order, db_item, db_user>>

\* A request of one round trip is answered: the session get_db yielded is handed
\* back to it at the given exit
Answer(request, status, body, db, exit) ==
  /\ out' = [req |-> request, status |-> status, body |-> body,
             db |-> get_db(db, exit), db_order |-> <<>>]
  /\ UNCHANGED slotvars

\* ----------------------------------------------- requests in a slot
\* the request of slot r leaves its handler: get_db's finally clause runs,
\* the response is sent and the slot is free again
Leave(r, request, status, body, db, exit, order) ==
  /\ out' = [req |-> request, status |-> status, body |-> body,
             db |-> get_db(db, exit), db_order |-> order]
  /\ pc' = [pc EXCEPT ![r] = "idle"]
  /\ req' = [req EXCEPT ![r] = NoReq]
  /\ sess' = [sess EXCEPT ![r] = NoSession]
  /\ db_order' = [db_order EXCEPT ![r] = <<>>]
  /\ db_item' = [db_item EXCEPT ![r] = <<>>]
  /\ db_user' = [db_user EXCEPT ![r] = <<>>]

\* the request of slot r goes on to its next round trip, holding loaded as
\* its db_item; no response is sent yet
GoOn(r, request, label, loaded) ==
  /\ pc' = [pc EXCEPT ![r] = label]
  /\ req' = [req EXCEPT ![r] = request]
  /\ sess' = [sess EXCEPT ![r] = SessionLocal]
  /\ db_item' = [db_item EXCEPT ![r] = loaded]
  /\ out' = NoOut
  /\ UNCHANGED <<db_order, db_user>>

\* db.refresh(db_item): SELECT the row of db_item's primary key, as <<>> or
\* <<row>>; finding none raises InvalidRequestError
Refresh(loaded) == FirstItem(loaded.item_id)

\* ------------------------------------------------------------- users
\* INSERT INTO users: the primary key and UNIQUE(email)
UsersInsertOk(row) ==
  /\ \A u \in users : u.user_id # row.user_id
  /\ \A u \in users : u.email # row.email

\* lines 118-122: add the User and commit
create_user(r, user) ==
  /\ pc[r] = "idle"
  /\ uuid_ctr < MaxUuid
  /\ LET db_user_ == [user_id |-> Uuid4(1), email |-> user.email, name |-> user.name]
         request == [op |-> "create_user", user |-> user]
     IN IF UsersInsertOk(db_user_)
        THEN /\ users' = users \cup {db_user_}
             /\ pc' = [pc EXCEPT ![r] = "create_user_refresh"]
             /\ req' = [req EXCEPT ![r] = request]
             /\ sess' = [sess EXCEPT ![r] = SessionLocal]
             /\ db_user' = [db_user EXCEPT ![r] = <<db_user_>>]
             /\ out' = NoOut
             /\ UNCHANGED <<db_order, db_item>>
        ELSE /\ users' = users
             /\ Leave(r, request, 500, <<>>,
                      [SessionLocal EXCEPT !.new = <<db_user_>>], "error", <<>>)
  /\ uuid_ctr' = uuid_ctr + 1
  /\ UNCHANGED <<items, orders, order_items>>

\* lines 123-124: read the row back and return it
create_user_refresh(r) ==
  /\ pc[r] = "create_user_refresh"
  /\ LET row == FirstUser(db_user[r][1].user_id)
     IN IF row = <<>>
        THEN Leave(r, req[r], 500, <<>>, sess[r], "error", <<>>)
        ELSE Leave(r, req[r], 201, row, sess[r], "return", <<>>)
  /\ UNCHANGED <<store, uuid_ctr>>

\* ------------------------------------------------------------- items
\* INSERT INTO items: the primary key
ItemsInsertOk(row) == \A i \in items : i.item_id # row.item_id

\* lines 141-145: add the Item and commit
create_item(r, item) ==
  /\ pc[r] = "idle"
  /\ uuid_ctr < MaxUuid
  /\ LET db_item_ == [item_id |-> Uuid4(1), name |-> item.name,
                      description |-> item.description,
                      price |-> Numeric2(item.price)]
         request == [op |-> "create_item", item |-> item]
     IN IF ItemsInsertOk(db_item_)
        THEN /\ items' = items \cup {db_item_}
             /\ GoOn(r, request, "create_item_refresh", <<db_item_>>)
        ELSE /\ items' = items
             /\ Leave(r, request, 500, <<>>,
                      [SessionLocal EXCEPT !.new = <<db_item_>>], "error", <<>>)
  /\ uuid_ctr' = uuid_ctr + 1
  /\ UNCHANGED <<users, orders, order_items>>

\* lines 146-147: read the row back and return it
create_item_refresh(r) ==
  /\ pc[r] = "create_item_refresh"
  /\ LET row == Refresh(db_item[r][1])
     IN IF row = <<>>
        THEN Leave(r, req[r], 500, <<>>, sess[r], "error", <<>>)
        ELSE Leave(r, req[r], 201, row, sess[r], "return", <<>>)
  /\ UNCHANGED <<store, uuid_ctr>>

\* lines 150-155
get_item(item_id) ==
  /\ LET db_item_ == FirstItem(item_id)
         request == [op |-> "get_item", item_id |-> item_id]
     IN IF db_item_ = <<>>
        THEN Answer(request, 404, <<>>, SessionLocal, "http")
        ELSE Answer(request, 200, db_item_, SessionLocal, "return")
  /\ UNCHANGED <<store, uuid_ctr>>

\* lines 158-162: look the item up
update_item(r, item_id, item) ==
  /\ pc[r] = "idle"
  /\ LET db_item_ == FirstItem(item_id)
         request == [op |-> "update_item", item_id |-> item_id, item |-> item]
     IN IF db_item_ = <<>>
        THEN Leave(r, request, 404, <<>>, SessionLocal, "http", <<>>)
        ELSE GoOn(r, request, "update_item_commit", db_item_)
  /\ UNCHANGED <<store, uuid_ctr>>

\* lines 164-169: the fields of ItemUpdate that are truthy are assigned to
\* the loaded object; the price assigned is the float of the request
ApplyItemUpdate(loaded, item) ==
  [loaded EXCEPT
     !.name = IF TruthyStr(item.name) THEN item.name[1] ELSE @,
     !.description = IF TruthyStr(item.description) THEN <<item.description[1]>> ELSE @,
     !.price = IF TruthyFloat(item.price) THEN item.price[1] ELSE @]

\* the flush of a modified object: UPDATE items SET <the columns whose
\* value differs from the one loaded> WHERE item_id = <primary key>.
\* sent is whether an UPDATE is issued at all, matched whether it found
\* the row, items the table after it
UpdateItems(loaded, assigned) ==
  LET row == FirstItem(loaded.item_id)
      written == [row[1] EXCEPT
                    !.name = IF assigned.name # loaded.name
                             THEN assigned.name ELSE @,
                    !.description = IF assigned.description # loaded.description
                                    THEN assigned.description ELSE @,
                    !.price = IF assigned.price # loaded.price
                              THEN Numeric2(assigned.price) ELSE @]
  IN [sent |-> assigned # loaded,
      matched |-> row # <<>>,
      items |-> IF assigned # loaded /\ row # <<>>
                THEN (items \ {row[1]}) \cup {written} ELSE items]

\* lines 164-171: assign and commit; an UPDATE that matches no row raises
\* StaleDataError
update_item_commit(r) ==
  /\ pc[r] = "update_item_commit"
  /\ LET upd == UpdateItems(db_item[r][1],
                            ApplyItemUpdate(db_item[r][1], req[r].item))
     IN IF upd.sent /\ ~upd.matched
        THEN /\ items' = items
             /\ Leave(r, req[r], 500, <<>>, sess[r], "error", <<>>)
        ELSE /\ items' = upd.items
             /\ GoOn(r, req[r], "update_item_refresh", db_item[r])
  /\ UNCHANGED <<users, orders, order_items, uuid_ctr>>

\* lines 172-173: read the row back and return it
update_item_refresh(r) ==
  /\ pc[r] = "update_item_refresh"
  /\ LET row == Refresh(db_item[r][1])
     IN IF row = <<>>
        THEN Leave(r, req[r], 500, <<>>, sess[r], "error", <<>>)
        ELSE Leave(r, req[r], 200, row, sess[r], "return", <<>>)
  /\ UNCHANGED <<store, uuid_ctr>>

\* Mutants of DeleteFromItems: a store that does not enforce the foreign
\* key, and a foreign key declared ON DELETE CASCADE
DeleteFromItemsUnchecked(row) ==
  [ok |-> TRUE, items |-> {i \in items : i.item_id # row.item_id},
   order_items |-> order_items]
DeleteFromItemsCascade(row) ==
  [ok |-> TRUE, items |-> {i \in items : i.item_id # row.item_id},
   order_items |-> {oi \in order_items : oi.item_id # row.item_id}]

\* DELETE FROM items WHERE item_id = row.item_id, then COMMIT:
\* order_items.item_id REFERENCES items (no ON DELETE action), so the
\* delete is refused while an order_items row names the item; a DELETE that
\* matches no row is a warning, not an error
DeleteFromItems(row) ==
  IF \E oi \in order_items : oi.item_id = row.item_id
  THEN [ok |-> FALSE, items |-> items, order_items |-> order_items]
  ELSE [ok |-> TRUE, items |-> {i \in items : i.item_id # row.item_id},
        order_items |-> order_items]

\* lines 176-180: look the item up
delete_item(r, item_id) ==
  /\ pc[r] = "idle"
  /\ LET db_item_ == FirstItem(item_id)
         request == [op |-> "delete_item", item_id |-> item_id]
     IN IF db_item_ = <<>>
        THEN Leave(r, request, 404, <<>>, SessionLocal, "http", <<>>)
        ELSE GoOn(r, request, "delete_item_commit", db_item_)
  /\ UNCHANGED <<store, uuid_ctr>>

\* lines 182-184: delete and commit
delete_item_commit(r) ==
  /\ pc[r] = "delete_item_commit"
  /\ LET del == DeleteFromItems(db_item[r][1])
     IN /\ items' = del.items
        /\ order_items' = del.order_items
        /\ IF del.ok
           THEN Leave(r, req[r], 204, <<>>, sess[r], "return", <<>>)
           ELSE Leave(r, req[r], 500, <<>>, sess[r], "error", <<>>)
  /\ UNCHANGED <<users, orders, uuid_ctr>>

\* ------------------------------------------------------------ orders
\* lines 188-193: get_db yields a session; look the user up
create_order_user(r, order) ==
  /\ pc[r] = "idle"
  /\ LET request == [op |-> "create_order", order |-> order]
     IN IF FirstUser(order.user_id) = <<>>
        THEN Leave(r, request, 404, <<>>, SessionLocal, "http", <<>>)
        ELSE /\ req' = [req EXCEPT ![r] = request]
             /\ sess' = [sess EXCEPT ![r] = SessionLocal]
             /\ pc' = [pc EXCEPT ![r] = "flush"]
             /\ out' = NoOut
             /\ UNCHANGED <<db_order, db_item, db_user>>
  /\ UNCHANGED <<store, uuid_ctr>>

\* Mutant of Flush: the INSERT is committed at once (autocommit)
FlushAutocommit(db, row) == [db |-> db, orders |-> orders \cup {row}]

\* db.flush() of the added Order: INSERT INTO orders inside the session's
\* transaction; the row is in the table for this session only until COMMIT
Flush(db, row) ==
  [db |-> [db EXCEPT !.tx_orders = @ \cup {row}], orders |-> orders]

\* INSERT INTO orders: the primary key and REFERENCES users
OrdersInsertOk(row) ==
  /\ \A o \in orders : o.order_id # row.order_id
  /\ \E u \in users : u.user_id = row.user_id

\* lines 196-198
create_order_flush(r, now) ==
  /\ pc[r] = "flush"
  /\ uuid_ctr < MaxUuid
  /\ LET row == [order_id |-> Uuid4(1), user_id |-> req[r].order.user_id,
                 created_at |-> now, status |-> "pending"]
         f == Flush(sess[r], row)
     IN IF OrdersInsertOk(row)
        THEN /\ db_order' = [db_order EXCEPT ![r] = <<row>>]
             /\ sess' = [sess EXCEPT ![r] = f.db]
             /\ orders' = f.orders
             /\ pc' = [pc EXCEPT ![r] =
                         IF req[r].order.items = <<>> THEN "commit" ELSE "items"]
             /\ out' = NoOut
             /\ UNCHANGED <<req, db_item, db_user>>
        ELSE /\ Leave(r, req[r], 500, <<>>, sess[r], "error", <<row>>)
             /\ UNCHANGED orders
  /\ uuid_ctr' = uuid_ctr + 1
  /\ UNCHANGED <<users, items, order_items>>

\* Mutant of NewOrderItem: a quantity below one is raised to one
NewOrderItemClamped(order_id, order_item) ==
  [order_id |-> order_id, item_id |-> order_item.item_id,
   quantity |-> IF order_item.quantity < 1 THEN 1 ELSE order_item.quantity]

\* lines 206-210: the OrderItem built for one entry of order.items
NewOrderItem(order_id, order_item) ==
  [order_id |-> order_id, item_id |-> order_item.item_id,
   quantity |-> order_item.quantity]

\* lines 201-211: one turn of the loop, for the entry after those already added
create_order_item(r) ==
  /\ pc[r] = "items"
  /\ LET order_item == req[r].order.items[Len(sess[r].new) + 1]
     IN IF FirstItem(order_item.item_id) = <<>>
        THEN Leave(r, req[r], 404, <<>>, sess[r], "http", db_order[r])
        ELSE /\ sess' = [sess EXCEPT ![r].new =
                           Append(@, NewOrderItem(db_order[r][1].order_id, order_item))]
             /\ pc' = [pc EXCEPT ![r] =
                         IF Len(sess[r].new) + 1 = Len(req[r].order.items)
                         THEN "commit" ELSE "items"]
             /\ out' = NoOut
             /\ UNCHANGED <<req, db_order, db_item, db_user>>
  /\ UNCHANGED <<store, uuid_ctr>>

\* the order_items rows the flush inside db.commit() inserts: each pending
\* OrderItem with its own uuid4
FlushedOrderItems(new) ==
  {[id |-> Uuid4(k), order_id |-> new[k].order_id, item_id |-> new[k].item_id,
    quantity |-> new[k].quantity] : k \in 1..Len(new)}

\* Mutant of OrderItemsInsertOk: REFERENCES items is not enforced
OrderItemsInsertOkNoItemFk(db, rows) ==
  /\ \A row \in rows : \A oi \in order_items : oi.id # row.id
  /\ \A row \in rows : \E o \in orders \cup db.tx_orders : o.order_id = row.order_id

\* INSERT INTO order_items: the primary key, REFERENCES orders (the
\* transaction's own orders rows count) and REFERENCES items
OrderItemsInsertOk(db, rows) ==
  /\ \A row \in rows : \A oi \in order_items : oi.id # row.id
  /\ \A row \in rows : \E o \in orders \cup db.tx_orders : o.order_id = row.order_id
  /\ \A row \in rows : \E i \in items : i.item_id = row.item_id

\* COMMIT: the transaction's orders rows become visible; an orders row whose
\* key another transaction committed meanwhile is refused
CommitOrdersOk(db) ==
  \A row \in db.tx_orders : \A o \in orders : o.order_id # row.order_id

\* line 213: commit
create_order_commit(r) ==
  /\ pc[r] = "commit"
  /\ uuid_ctr + Len(sess[r].new) <= MaxUuid
  /\ LET rows == FlushedOrderItems(sess[r].new)
     IN IF OrderItemsInsertOk(sess[r], rows) /\ CommitOrdersOk(sess[r])
        THEN /\ orders' = orders \cup sess[r].tx_orders
             /\ order_items' = order_items \cup rows
             /\ pc' = [pc EXCEPT ![r] = "create_order_refresh"]
             /\ sess' = [sess EXCEPT ![r] = Committed(sess[r])]
             /\ out' = NoOut
             /\ UNCHANGED <<req, db_order, db_item, db_user>>
        ELSE /\ Leave(r, req[r], 500, <<>>, sess[r], "error", db_order[r])
             /\ UNCHANGED <<orders, order_items>>
  /\ uuid_ctr' = uuid_ctr + Len(sess[r].new)
  /\ UNCHANGED <<users, items>>

\* lines 214-215: read the order back and return it
create_order_refresh(r) ==
  /\ pc[r] = "create_order_refresh"
  /\ LET row == FirstOrder(db_order[r][1].order_id)
     IN IF row = <<>>
        THEN Leave(r, req[r], 500, <<>>, sess[r], "error", db_order[r])
        ELSE Leave(r, req[r], 201, row, sess[r], "return", db_order[r])
  /\ UNCHANGED <<store, uuid_ctr>>

\* ----------------------------------------------------- request inputs
\* ids a client can send: those of the rows in the store, and one that names
\* no row (an id never issued, or the id of a row since deleted)
KnownUserIds == {0} \cup {u.user_id : u \in users}
KnownItemIds == {0} \cup {i.item_id : i \in items}
UserCreates == [email : Emails, name : UserNames]
ItemCreates == [name : ItemNames, description : Descriptions, price : Prices]
ItemUpdates == [name : UpdNames, description : UpdDescriptions, price : UpdPrices]
OrderItemCreates(ids, qs) == [item_id : ids, quantity : qs]
SeqsUpTo(S, n) == UNION {[1..k -> S] : k \in 0..n}
OrderCreates(uids, iids, qs) ==
  [user_id : uids, items : SeqsUpTo(OrderItemCreates(iids, qs), MaxItems)]

\* ------------------------------------------------ the API as a whole
\* the server hands a request to its first free worker
FirstFree(r) == pc[r] = "idle" /\ \A s \in Slots : s < r => pc[s] # "idle"
NoneInFlight == \A s \in Slots : pc[s] = "idle"
\* an order is taken up while the ids it draws, one for the order and one
\* for each line item, are within MaxUuid
WithinUuids(o) == uuid_ctr + 1 + Len(o.items) <= MaxUuid

CreateUser == \E r \in Slots, u \in UserCreates : FirstFree(r) /\ create_user(r, u)
CreateUserRefresh == \E r \in Slots : create_user_refresh(r)
GetItem == \E id \in KnownItemIds : get_item(id)
CreateItem == \E r \in Slots, i \in ItemCreates : FirstFree(r) /\ create_item(r, i)
CreateItemRefresh == \E r \in Slots : create_item_refresh(r)
UpdateItem ==
  \E r \in Slots, id \in KnownItemIds :
    FirstFree(r) /\ update_item(r, id, RenameOnly)
UpdateItemCommit == \E r \in Slots : update_item_commit(r)
UpdateItemRefresh == \E r \in Slots : update_item_refresh(r)
DeleteItem == \E r \in Slots, id \in KnownItemIds : FirstFree(r) /\ delete_item(r, id)
DeleteItemCommit == \E r \in Slots : delete_item_commit(r)
CreateOrderUser ==
  \E r \in Slots : \E o \in OrderCreates(KnownUserIds, KnownItemIds, {2}) :
    FirstFree(r) /\ WithinUuids(o) /\ create_order_user(r, o)
CreateOrderFlush == \E r \in Slots, now \in Times : create_order_flush(r, now)
CreateOrderItem == \E r \in Slots : create_order_item(r)
CreateOrderCommit == \E r \in Slots : create_order_commit(r)
CreateOrderRefresh == \E r \in Slots : create_order_refresh(r)

Next ==
  \/ CreateUser
  \/ CreateUserRefresh
  \/ GetItem
  \/ CreateItem
  \/ CreateItemRefresh
  \/ UpdateItem
  \/ UpdateItemCommit
  \/ UpdateItemRefresh
  \/ DeleteItem
  \/ DeleteItemCommit
  \/ CreateOrderUser
  \/ CreateOrderFlush
  \/ CreateOrderItem
  \/ CreateOrderCommit
  \/ CreateOrderRefresh

Spec == Init /\ [][Next]_vars

\* ------------------------------------------- rows written beforehand
\* Rows of a store that earlier requests filled; their ids are uuid4 values
\* drawn before the ones uuid_ctr counts
PreUser == [user_id |-> MaxUuid + 1, email |-> "order@test.com", name |-> "Order User"]
PreItemA == [item_id |-> MaxUuid + 2, name |-> "Medicine", description |-> <<>>,
             price |-> 12000]
PreItemB == [item_id |-> MaxUuid + 3, name |-> "Paracetamol",
             description |-> <<"Fever reducer">>, price |-> 3500]
PreOrder == [order_id |-> MaxUuid + 4, user_id |-> PreUser.user_id,
             created_at |-> 1, status |-> "pending"]
PreOrderItem == [id |-> MaxUuid + 5, order_id |-> PreOrder.order_id,
                 item_id |-> PreItemA.item_id, quantity |-> 2]

NoRequests ==
  /\ uuid_ctr = 0
  /\ pc = [r \in Slots |-> "idle"]
  /\ req = [r \in Slots |-> NoReq]
  /\ sess = [r \in Slots |-> NoSession]
  /\ db_order = [r \in Slots |-> <<>>]
  /\ db_item = [r \in Slots |-> <<>>]
  /\ db_user = [r \in Slots |-> <<>>]
  /\ out = NoOut

\* ------------------------------------- order creation on a filled store
InitOrders ==
  /\ users = {PreUser}
  /\ items = {PreItemA}
  /\ orders = {}
  /\ order_items = {}
  /\ NoRequests

\* create_order requests arrive while others are in flight
NextOrders ==
  \/ CreateOrderUser
  \/ CreateOrderFlush
  \/ CreateOrderItem
  \/ CreateOrderCommit
  \/ CreateOrderRefresh

SpecOrders == InitOrders /\ [][NextOrders]_vars

\* --------------------------- one order at a time, any line items
PlaceAnyOrder ==
  \E r \in Slots : \E o \in OrderCreates(KnownUserIds, KnownItemIds, Quantities) :
    NoneInFlight /\ FirstFree(r) /\ WithinUuids(o) /\ create_order_user(r, o)

NextLineItems ==
  \/ PlaceAnyOrder
  \/ CreateOrderFlush
  \/ CreateOrderItem
  \/ CreateOrderCommit
  \/ CreateOrderRefresh

SpecLineItems == InitOrders /\ [][NextLineItems]_vars

\* ------------------------------------------ item updates on a filled store
InitItems ==
  /\ users = {PreUser}
  /\ items = {PreItemA, PreItemB}
  /\ orders = {PreOrder}
  /\ order_items = {PreOrderItem}
  /\ NoRequests

\* one request at a time
PutItem ==
  \E r \in Slots, id \in KnownItemIds, u \in ItemUpdates :
    NoneInFlight /\ FirstFree(r) /\ update_item(r, id, u)
RemoveItem ==
  \E r \in Slots, id \in KnownItemIds :
    NoneInFlight /\ FirstFree(r) /\ delete_item(r, id)

NextItems ==
  \/ PutItem
  \/ UpdateItemCommit
  \/ UpdateItemRefresh
  \/ GetItem
  \/ RemoveItem
  \/ DeleteItemCommit

SpecItems == InitItems /\ [][NextItems]_vars


\* ------------------------------------------------------------ claims
\* Every step sets out: to the response it sends, or to NoOut.  So in a
\* step, out' names the request the step answers.
UserIds(S) == {u.user_id : u \in S}
ItemIds(S) == {i.item_id : i \in S}
OrderIds(S) == {o.order_id : o \in S}
StoredEmails(S) == {u.email : u \in S}
Answers(op) == out.req.op = op
NamesOnlyRows(order) ==
  /\ order.user_id \in UserIds(users)
  /\ \A k \in DOMAIN order.items : order.items[k].item_id \in ItemIds(items)
\* the rows added carry the order's id and are, entry for entry, the line
\* items of the request
LineItemsOf(added, order, order_id) ==
  /\ Cardinality(added) = Len(order.items)
  /\ \A a \in added : a.order_id = order_id
  /\ \A k \in DOMAIN order.items :
       Cardinality({a \in added : a.item_id = order.items[k].item_id
                                  /\ a.quantity = order.items[k].quantity})
       = Cardinality({j \in DOMAIN order.items : order.items[j] = order.items[k]})

\* C1: a create_order request that names a missing user or a missing item
\* (at any position) is answered 404, and neither that answer nor any step
\* before it changes a table: the store changes only at the commit of a
\* request, which no 404 follows, and no orders row and no order_items row
\* of a request answered 404 persists.
C1_FailedOrderPersistsNothing ==
  [][ /\ (store' # store =>
            \E r \in Slots : pc[r] = "commit" /\ pc'[r] = "create_order_refresh")
      /\ \A r \in Slots :
           (pc[r] \in {"commit", "create_order_refresh"} /\ pc'[r] # pc[r])
           => out'.status # 404
      /\ (out'.req.op = "create_order" =>
            /\ (~NamesOnlyRows(out'.req.order) => out'.status = 404)
            /\ (out'.status = 404 =>
                  /\ store' = store
                  /\ \A k \in DOMAIN out'.db_order :
                       /\ out'.db_order[k] \notin orders'
                       /\ \A oi \in order_items' :
                            oi.order_id # out'.db_order[k].order_id)) ]_vars

\* a request failed on its second line item after the first was added
C1_Witness ==
  /\ Answers("create_order") /\ out.status = 404
  /\ out.db_order # <<>>
  /\ Len(out.req.order.items) = 2
  /\ out.req.order.items[1].item_id \in ItemIds(items)

\* C2: with no other request between its steps, a create_order request
\* whose user and items all exist commits exactly one orders row (an id no
\* order had, the given user_id, status "pending") and exactly one
\* order_items row per entry of items, with the order's id and the entry's
\* item_id and quantity: none for an empty list, one per repetition of an
\* item, quantities as given; it is then answered 201 with that order.
C2_OrderAddsOneRowPerEntry ==
  [][ /\ (out'.req.op = "create_order" /\ NamesOnlyRows(out'.req.order)) =>
           /\ out'.status = 201
           /\ Len(out'.body) = 1
           /\ out'.body[1] \in orders
           /\ out'.body = out'.db_order
           /\ store' = store
      /\ \A r \in Slots :
           (pc[r] = "commit" /\ pc'[r] # pc[r] /\ NamesOnlyRows(req[r].order)) =>
             LET row == db_order[r][1]
             IN /\ pc'[r] = "create_order_refresh"
                /\ row \notin orders
                /\ orders' = orders \cup {row}
                /\ row.order_id \notin OrderIds(orders)
                /\ row.user_id = req[r].order.user_id
                /\ row.status = "pending"
                /\ order_items \subseteq order_items'
                /\ LineItemsOf(order_items' \ order_items, req[r].order, row.order_id)
                /\ \A a \in order_items' \ order_items :
                     \A b \in order_items : a.id # b.id
                /\ users' = users /\ items' = items ]_vars

\* an order was created with the same item twice, once with a quantity that
\* is not positive
C2_Witness ==
  /\ Answers("create_order") /\ out.status = 201
  /\ Len(out.req.order.items) = 2
  /\ out.req.order.items[1].item_id = out.req.order.items[2].item_id
  /\ out.req.order.items[1].quantity <= 0
  /\ Cardinality({oi \in order_items : oi.order_id = out.body[1].order_id}) = 2

\* C3: with no other request between its steps, update_item on an id no
\* item has is answered 404 and changes nothing; on a stored item its
\* commit overwrites exactly the fields of name, description and price
\* supplied truthy (a price is kept to the hundredth) and leaves the item's
\* other fields and every other row as they were: an omitted, empty or zero
\* field keeps the stored value; it is then answered 200 with the row
\* stored.
C3_UpdateOverwritesTruthyFields ==
  [][ /\ (out'.req.op = "update_item" /\ pc' = pc) =>
           /\ out'.status = 404
           /\ out'.req.item_id \notin ItemIds(items)
           /\ store' = store
      /\ \A r \in Slots :
           /\ (pc[r] = "idle" /\ pc'[r] = "update_item_commit") =>
                req'[r].item_id \in ItemIds(items) /\ store' = store
           /\ (pc[r] = "update_item_commit" /\ pc'[r] # pc[r]) =>
                LET id == req[r].item_id
                    u == req[r].item
                    old == CHOOSE i \in items : i.item_id = id
                    new == CHOOSE i \in items' : i.item_id = id
                IN /\ pc'[r] = "update_item_refresh"
                   /\ id \in ItemIds(items)
                   /\ items' = (items \ {old}) \cup {new}
                   /\ new.item_id = id
                   /\ new.name = IF u.name \in {<<>>, <<"">>} THEN old.name ELSE u.name[1]
                   /\ new.description = IF u.description \in {<<>>, <<"">>}
                                        THEN old.description ELSE u.description
                   /\ IF u.price \in {<<>>, <<0>>}
                      THEN new.price = old.price
                      ELSE /\ new.price % 10 = 0
                           /\ new.price - u.price[1] \in -5..5
                   /\ users' = users /\ orders' = orders /\ order_items' = order_items
           /\ (pc[r] = "update_item_refresh" /\ pc'[r] # pc[r]) =>
                /\ out'.req = req[r]
                /\ out'.status = 200
                /\ Len(out'.body) = 1
                /\ out'.body[1] \in items
                /\ out'.body[1].item_id = req[r].item_id
                /\ store' = store ]_vars

\* an update that carried an empty name, a zero price and a new description
C3_Witness ==
  /\ Answers("update_item") /\ out.status = 200
  /\ out.req.item.name = <<"">>
  /\ out.req.item.price = <<0>>
  /\ out.req.item.description = <<"Fever reducer">>
  /\ out.body[1].description = <<"Fever reducer">>

\* C4 as claimed: delete_item on an id no item has is answered 404 and
\* changes nothing; on an item it finds in the store it is answered 204 and
\* the item is gone, so that get_item then finds nothing.
C4_DeleteAlwaysRemoves ==
  [][ /\ (out'.req.op = "delete_item" /\ pc' = pc) =>
           /\ out'.status = 404
           /\ out'.req.item_id \notin ItemIds(items)
           /\ store' = store
      /\ \A r \in Slots :
           /\ (pc[r] = "idle" /\ req'[r].op = "delete_item") =>
                req'[r].item_id \in ItemIds(items)
           /\ (pc[r] = "delete_item_commit" /\ pc'[r] # pc[r]) =>
                /\ out'.status = 204
                /\ req[r].item_id \notin ItemIds(items') ]_vars

\* C4 amended: delete_item on an id no item has when it looks the item up is
\* answered 404 and changes nothing.  On an item it finds: if an
\* order_items row names the item when the delete commits, the store
\* refuses, the answer is 500 and nothing changes; otherwise the answer is
\* 204, the item is gone and nothing else has changed.
C4_DeleteRemovesUnlessReferenced ==
  [][ /\ (out'.req.op = "delete_item" /\ pc' = pc) =>
           /\ out'.status = 404
           /\ out'.req.item_id \notin ItemIds(items)
           /\ store' = store
      /\ \A r \in Slots :
           /\ (pc[r] = "idle" /\ req'[r].op = "delete_item") =>
                /\ req'[r].item_id \in ItemIds(items)
                /\ pc'[r] = "delete_item_commit"
                /\ store' = store
           /\ (pc[r] = "delete_item_commit" /\ pc'[r] # pc[r]) =>
                LET id == req[r].item_id
                IN /\ out'.req = req[r]
                   /\ IF \E oi \in order_items : oi.item_id = id
                      THEN out'.status = 500 /\ store' = store
                      ELSE /\ out'.status = 204
                           /\ items' = {i \in items : i.item_id # id}
                           /\ users' = users /\ orders' = orders
                           /\ order_items' = order_items ]_vars

\* the delete of an item used as a line item was refused
C4_Witness ==
  /\ Answers("delete_item") /\ out.status = 500
  /\ out.req.item_id \in ItemIds(items)
  /\ \E oi \in order_items : oi.item_id = out.req.item_id

\* C5 as claimed: every create_user call is answered 201 with the email and
\* name given and a non-empty id that is the id of that user alone.
C5_CreateUserAlways201 ==
  [][ out'.req.op = "create_user" =>
        /\ out'.status = 201
        /\ Len(out'.body) = 1
        /\ out'.body[1].email = out'.req.user.email
        /\ out'.body[1].name = out'.req.user.name
        /\ out'.body[1].user_id # 0
        /\ \A u \in users : u.user_id = out'.body[1].user_id => u = out'.body[1] ]_vars

\* C5 amended: a create_user call whose email no stored user has when it
\* commits adds a user with the email and name given and a non-empty id no
\* stored user has, and is then answered 201 with that user; a call whose
\* email is stored already is answered 500 and adds nothing.
C5_CreateUserUnlessEmailTaken ==
  [][ /\ (out'.req.op = "create_user" /\ pc' = pc) =>
           /\ out'.status = 500
           /\ out'.req.user.email \in StoredEmails(users)
           /\ store' = store
      /\ \A r \in Slots :
           /\ (pc[r] = "idle" /\ pc'[r] = "create_user_refresh") =>
                LET row == db_user'[r][1]
                IN /\ req'[r].user.email \notin StoredEmails(users)
                   /\ row.email = req'[r].user.email
                   /\ row.name = req'[r].user.name
                   /\ row.user_id \notin UserIds(users) \cup {0}
                   /\ users' = users \cup {row}
                   /\ items' = items /\ orders' = orders
                   /\ order_items' = order_items
           /\ (pc[r] = "create_user_refresh" /\ pc'[r] # pc[r]) =>
                /\ out'.req = req[r]
                /\ out'.status = 201
                /\ out'.body = db_user[r]
                /\ out'.body[1] \in users
                /\ store' = store ]_vars

\* a second user was created after a first
C5_Witness ==
  /\ Answers("create_user") /\ out.status = 201
  /\ Cardinality(users) = 2
  /\ Cardinality(UserIds(users)) = 2

\* C6: every order_items row a step adds names an order and an item that
\* are in the store when the step is done.
C6_CommittedLineItemsReferToRows ==
  [][ \A oi \in order_items' \ order_items :
        /\ oi.order_id \in OrderIds(orders')
        /\ oi.item_id \in ItemIds(items') ]_vars

\* delete_item has just removed an item that a create_order in flight has
\* looked up and holds as a pending line item
C6_Witness ==
  /\ Answers("delete_item") /\ out.status = 204
  /\ \E r \in Slots :
       /\ pc[r] = "commit"
       /\ \E k \in DOMAIN sess[r].new : sess[r].new[k].item_id = out.req.item_id

\* C7: create_order requests in flight together do not interfere: a step of
\* one leaves the other's request, session and locals alone; each is
\* answered as it would be alone (201 if its user and items exist, else
\* 404); the store changes only when a request commits, by that request's
\* own orders row, with an id no other order has, and its own line items
\* under that id: the store is always the one the committed requests build
\* one after the other.
C7_ConcurrentOrdersDoNotInterfere ==
  [][ /\ \A r, s \in Slots :
           (r # s /\ <<pc[r], req[r], sess[r], db_order[r]>>
                     # <<pc'[r], req'[r], sess'[r], db_order'[r]>>)
           => <<pc[s], req[s], sess[s], db_order[s]>>
              = <<pc'[s], req'[s], sess'[s], db_order'[s]>>
      /\ \A r, s \in Slots :
           (r # s /\ db_order'[r] # <<>> /\ db_order'[s] # <<>>)
           => db_order'[r][1].order_id # db_order'[s][1].order_id
      /\ (store' # store =>
            \E r \in Slots : pc[r] = "commit" /\ pc'[r] = "create_order_refresh")
      /\ \A r \in Slots :
           (pc[r] = "commit" /\ pc'[r] # pc[r]) =>
             LET row == db_order[r][1]
             IN /\ pc'[r] = "create_order_refresh"
                /\ NamesOnlyRows(req[r].order)
                /\ row.order_id \notin OrderIds(orders)
                /\ row.user_id = req[r].order.user_id
                /\ orders' = orders \cup {row}
                /\ order_items \subseteq order_items'
                /\ LineItemsOf(order_items' \ order_items, req[r].order,
                               row.order_id)
      /\ (out'.req.op = "create_order" =>
            /\ out'.status = IF NamesOnlyRows(out'.req.order) THEN 201 ELSE 404
            /\ store' = store
            /\ (out'.status = 201 =>
                  /\ out'.db_order = out'.body
                  /\ out'.body[1] \in orders
                  /\ LineItemsOf({oi \in order_items :
                                    oi.order_id = out'.body[1].order_id},
                                 out'.req.order, out'.body[1].order_id))) ]_vars

\* one request has just committed its order while another, begun before,
\* holds its flushed order and a pending line item
C7_Witness ==
  /\ Answers("create_order") /\ out.status = 201
  /\ order_items # {}
  /\ \E r \in Slots : pc[r] = "commit" /\ db_order[r] # <<>> /\ sess[r].new # <<>>

\* C8: the session of every answered request is closed, whether the handler
\* returned, raised a 404 or failed in the store, and nothing it wrote
\* without committing is left: no pending object, no open transaction, no
\* orders row of a request that failed.
C8_SessionsReleased ==
  /\ ~out.db.open
  /\ out.db.tx_orders = {}
  /\ out.db.new = <<>>
  /\ (out.status # 201 => \A k \in DOMAIN out.db_order : out.db_order[k] \notin orders)
  /\ \A r \in Slots : pc[r] = "idle" => ~sess[r].open

\* a create_order failed in the store at its commit, after its order was
\* flushed
C8_Witness ==
  /\ Answers("create_order") /\ out.status = 500
  /\ out.db_order # <<>>

\* C9: no step removes or changes an orders or order_items row; rows are
\* added only by the commit of a create_order, which adds its one order and
\* line items of that order only and is then answered 201; every stored
\* order is "pending".
C9_OrdersAreWriteOnce ==
  [][ /\ orders \subseteq orders'
      /\ order_items \subseteq order_items'
      /\ (orders' # orders \/ order_items' # order_items) =>
           \E r \in Slots :
             /\ req[r].op = "create_order"
             /\ pc[r] = "commit" /\ pc'[r] = "create_order_refresh"
             /\ orders' \ orders = {db_order[r][1]}
             /\ \A oi \in order_items' \ order_items :
                  oi.order_id = db_order[r][1].order_id
      /\ \A r \in Slots :
           (pc[r] = "create_order_refresh" /\ pc'[r] # pc[r]) =>
             /\ out'.req = req[r]
             /\ out'.status = 201
             /\ out'.body = db_order[r]
             /\ out'.body[1] \in orders'
      /\ \A o \in orders' : o.status = "pending"
      /\ \A o \in orders' : Cardinality({q \in orders' : q.order_id = o.order_id}) = 1 ]_vars

\* an item that is a line item of a stored order has just been updated
C9_Witness ==
  /\ Answers("update_item") /\ out.status = 200
  /\ orders # {}
  /\ \E oi \in order_items : oi.item_id = out.req.item_id

\* C10: in every reachable state each order_items row names a stored order
\* and a stored item, and each orders row names a stored user.
C10_ReferentialIntegrity ==
  /\ \A oi \in order_items :
       oi.order_id \in OrderIds(orders) /\ oi.item_id \in ItemIds(items)
  /\ \A o \in orders : o.user_id \in UserIds(users)

\* line items are stored, and a delete of an item one of them names has just
\* been answered
C10_Witness ==
  /\ order_items # {}
  /\ Answers("delete_item")
  /\ \E oi \in order_items : oi.item_id = out.req.item_id
  /\ out.req.item_id \in ItemIds(items)
=============================================================================
